---- MODULE Spec2Model ----
(***************************************************************************)
(* A model of the 4-level wait-free atomic page table of src/src/lib.rs:   *)
(* PageTableInner's four root pointers, the heap of L1/L2/L3/L4 pages,     *)
(* punch_through's load / alloc_zeroed / compare_exchange / drop steps as  *)
(* they interleave between threads, PageTable::get's key decomposition     *)
(* and root selection, Clone, and the recursive Drop.                      *)
(*                                                                         *)
(* Scaling.  The source splits a 64-bit key into 8 bytes and 4 segments of *)
(* 2 bytes.  The model keeps the 8 bytes and the 4 segments of 2 bytes but *)
(* a byte has ByteBits bits, so FANOUT is 2^(2*ByteBits) and a key has     *)
(* 8*ByteBits bits.  With ByteBits = 8 this is the source.                 *)
(*                                                                         *)
(* Heap.  Every allocation gets a fresh address (the index into heap), so  *)
(* an address names one allocation for ever and a second free of it is     *)
(* visible in its frees count.  Address 0 is the null pointer.             *)
(*                                                                         *)
(* Atomics.  Each atomic operation is one step and the steps of all        *)
(* threads interleave in one order: the Acquire load and the AcqRel        *)
(* compare_exchange make a page's zero fill visible to whoever sees its    *)
(* pointer, so a page is modelled as zero from its allocation on.  The     *)
(* element type is AtomicU64, used through fetch_add(1) and load as in     *)
(* smoke; counts stay far below 2^64.                                      *)
(***************************************************************************)
EXTENDS Integers, Sequences, FiniteSets, TLC

\* ---- bounds of the model
ByteBits == 1
NThreads == 2
MaxGets == 2
MaxIncs == 2
MaxHandles == 2

\* ---- src/src/lib.rs:12
ByteBase == 2 ^ ByteBits
FANOUT == ByteBase * ByteBase

KeyLimit == FANOUT * FANOUT * FANOUT * FANOUT
AllKeys == 0 .. (KeyLimit - 1)
Segs == 0 .. (FANOUT - 1)

Threads == 1 .. NThreads
RootNames == {"l1", "l2", "l3", "l4"}

null_mut == 0

\* ---- key decomposition, PageTable::get lines 228-236

\* u64::to_be_bytes: the 8 bytes of key, most significant first.
to_be_bytes(key) ==
    [i \in 1 .. 8 |-> (key \div (ByteBase ^ (8 - i))) % ByteBase]

\* A decoding that takes the low byte first.
u16_from_le_bytes(hi, lo) == lo * ByteBase + hi

\* u16::from_be_bytes([hi, lo])
u16_from_be_bytes(hi, lo) == hi * ByteBase + lo

\* the | operator on unsigned integers
RECURSIVE BitOr(_, _)
BitOr(a, b) ==
    IF a = 0 THEN b
    ELSE IF b = 0 THEN a
    ELSE (IF a % 2 = 1 \/ b % 2 = 1 THEN 1 ELSE 0) + 2 * BitOr(a \div 2, b \div 2)

k1(key) == LET bytes == to_be_bytes(key) IN u16_from_be_bytes(bytes[1], bytes[2])
k2(key) == LET bytes == to_be_bytes(key) IN u16_from_be_bytes(bytes[3], bytes[4])
k3(key) == LET bytes == to_be_bytes(key) IN u16_from_be_bytes(bytes[5], bytes[6])
k4(key) == LET bytes == to_be_bytes(key) IN u16_from_be_bytes(bytes[7], bytes[8])

\* A leaf shortcut that forgets to look at k3.
direct_4_loose(key) == BitOr(k1(key), k2(key)) = 0

direct_4(key) == BitOr(BitOr(k1(key), k2(key)), k3(key)) = 0
direct_3(key) == BitOr(k1(key), k2(key)) = 0

\* A get without the level-2 shortcut.
direct_2_never(key) == FALSE

direct_2(key) == k1(key) = 0

\* A get with no shortcuts: every key goes through the general root.
GetPath_general(key) == [root |-> "l1", segs |-> <<k1(key), k2(key), k3(key)>>]

\* The root get starts from and the segments it passes to traverse_or_install,
\* in order (the if / else-if chain of lines 238-252).
GetPath(key) ==
    IF direct_4(key) THEN [root |-> "l4", segs |-> << >>]
    ELSE IF direct_3(key) THEN [root |-> "l3", segs |-> <<k3(key)>>]
    ELSE IF direct_2(key) THEN [root |-> "l2", segs |-> <<k2(key), k3(key)>>]
    ELSE [root |-> "l1", segs |-> <<k1(key), k2(key), k3(key)>>]

\* An index into the leaf taken from the wrong segment.
LeafIndex_k3(key) == k3(key)

\* The index of line 254, &l4.children[k4 as usize].
LeafIndex(key) == k4(key)

\* ---- pages

\* The page type behind each root pointer (PageTableInner, lines 118-127).
RootKind(r) ==
    CASE r = "l1" -> "L1" [] r = "l2" -> "L2" [] r = "l3" -> "L3" [] r = "l4" -> "L4"

\* Node types whose children are all leaves.
ChildKind_flat(kind) == "L4"

\* The child type of each node type (struct L1, L2, L3, lines 161-171).
ChildKind(kind) ==
    CASE kind = "L1" -> "L2" [] kind = "L2" -> "L3" [] kind = "L3" -> "L4"

\* A leaf from alloc instead of alloc_zeroed: its bytes are whatever the
\* allocator left there.
alloc_dirty(kind) ==
    [kind |-> kind, live |-> TRUE, frees |-> 0,
     children |-> [i \in Segs |-> IF kind = "L4" THEN 1 ELSE 0]]

\* alloc_zeroed(Layout::new::<Child>()): a page whose every child pointer
\* (L1..L3) or value slot (L4) is zero bits.
alloc_zeroed(kind) ==
    [kind |-> kind, live |-> TRUE, frees |-> 0, children |-> [i \in Segs |-> 0]]

\* ---- state

VARIABLES
    roots,      \* PageTableInner: the AtomicPtr fields l1, l2, l3, l4
    heap,       \* every page ever allocated, by address
    strong,     \* the Arc's strong count: the PageTable handles alive
    torn,       \* PageTableInner::drop has run
    dropLog,    \* the addresses PageTableInner::drop freed, in order
    th,         \* each thread: its position in get and its locals
    gets,       \* get calls started so far
    incs,       \* per key, the fetch_add(1) calls made through get(key)
    returned,   \* the (key, slot) pairs get has returned
    casLog,     \* the (slot, child) pairs of successful compare_exchange calls
    ALLOCATED,  \* pages the allocator handed out   (examples/bench.rs)
    FREED,      \* pages handed back to the allocator (examples/bench.rs)
    probe       \* the key decomposition under test (SpecKey only)

vars ==
    <<roots, heap, strong, torn, dropLog, th, gets, incs, returned,
      casLog, ALLOCATED, FREED, probe>>

\* The keys get is called with: the first and the last key of each root's
\* range, which are the shortcut boundaries 0, 2^16 - 1, 2^16, 2^32 - 1, 2^32,
\* 2^48 - 1, 2^48 and 2^64 - 1 of the source.
TestKeys ==
    {0, FANOUT - 1, FANOUT, FANOUT ^ 2 - 1, FANOUT ^ 2, FANOUT ^ 3 - 1,
     FANOUT ^ 3, KeyLimit - 1}

NoSlot == [root |-> "", obj |-> 0, idx |-> 0]
RootSlot(r) == [root |-> r, obj |-> 0, idx |-> 0]
ChildSlot(p, seg) == [root |-> "", obj |-> p, idx |-> seg]

IdleThread ==
    [pc |-> "idle", key |-> 0, lvl |-> 0, atomic_ptr |-> NoSlot,
     ptr |-> null_mut, new_child_ptr |-> null_mut, ref |-> NoSlot,
     read |-> FALSE, val |-> 0, seen |-> 0,
     allocs |-> 0, nAlloc |-> 0, nCas |-> 0, nFree |-> 0]

\* PageTable::new / PageTableInner::default: four null roots, one handle.
Init ==
    /\ roots = [r \in RootNames |-> null_mut]
    /\ heap = << >>
    /\ strong = 1
    /\ torn = FALSE
    /\ dropLog = << >>
    /\ th = [t \in Threads |-> IdleThread]
    /\ gets = 0
    /\ incs = [k \in TestKeys |-> 0]
    /\ returned = {}
    /\ casLog = {}
    /\ ALLOCATED = 0
    /\ FREED = 0
    /\ probe = [key |-> 0, done |-> FALSE, root |-> "", segs |-> << >>, k4 |-> 0]

\* ---- atomic pointer slots

\* AtomicPtr::load on the slot s
SlotLoad(s) == IF s.root # "" THEN roots[s.root] ELSE heap[s.obj].children[s.idx]

\* The type Child of the slot s: a root's page type, or the child type of the
\* node that holds s.
SlotKind(s) == IF s.root # "" THEN RootKind(s.root) ELSE ChildKind(heap[s.obj].kind)

\* roots after storing p in slot s
RootsStore(s, p) == IF s.root # "" THEN [roots EXCEPT ![s.root] = p] ELSE roots

\* heap h after storing p in slot s
HeapStore(h, s, p) ==
    IF s.root # "" THEN h ELSE [h EXCEPT ![s.obj].children[s.idx] = p]

\* A store in place of the compare_exchange: it always succeeds.
compare_exchange_blind(cur, expected, new) ==
    [ok |-> TRUE, val |-> cur, stored |-> new]

\* AtomicPtr::compare_exchange(expected, new) on a slot holding cur: whether it
\* succeeded, the value it reports, and the value the slot holds afterwards.
compare_exchange(cur, expected, new) ==
    IF cur = expected
    THEN [ok |-> TRUE, val |-> cur, stored |-> new]
    ELSE [ok |-> FALSE, val |-> cur, stored |-> cur]

\* ---- Drop

\* drop(Box::from_raw(p)): the addresses deallocated, in order.  The Drop impl of
\* L1, L2, L3 (impl_drop_children) first drops every non-null child in index
\* order; L4 has no Drop impl; then the page itself is deallocated.
RECURSIVE drop_children(_, _, _)
RECURSIVE drop_box(_, _)
drop_children(h, p, i) ==
    IF i >= FANOUT THEN << >>
    ELSE (IF h[p].children[i] # null_mut THEN drop_box(h, h[p].children[i]) ELSE << >>)
         \o drop_children(h, p, i + 1)

\* A drop that hands the page back before it drops the page's children.
drop_box_early(h, p) ==
    <<p>> \o (IF h[p].kind = "L4" THEN << >> ELSE drop_children(h, p, 0))

drop_box(h, p) ==
    (IF h[p].kind = "L4" THEN << >> ELSE drop_children(h, p, 0)) \o <<p>>

\* <PageTableInner as Drop>::drop: l1, l2, l3, l4 in that order, null roots skipped.
inner_drop(h, rs) ==
    (IF rs["l1"] # null_mut THEN drop_box(h, rs["l1"]) ELSE << >>)
    \o (IF rs["l2"] # null_mut THEN drop_box(h, rs["l2"]) ELSE << >>)
    \o (IF rs["l3"] # null_mut THEN drop_box(h, rs["l3"]) ELSE << >>)
    \o (IF rs["l4"] # null_mut THEN drop_box(h, rs["l4"]) ELSE << >>)

\* The same drops with their loads: what drop(Box::from_raw(p)) and
\* PageTableInner::drop do in order, each event the load of a root
\* (<<"root", r>>), the load of a child pointer (<<"load", page, index>>) or
\* the deallocation of a page (<<"free", page>>).
RECURSIVE drop_children_events(_, _, _)
RECURSIVE drop_box_events(_, _)
drop_children_events(h, p, i) ==
    IF i >= FANOUT THEN << >>
    ELSE <<<<"load", p, i>>>>
         \o (IF h[p].children[i] # null_mut
             THEN drop_box_events(h, h[p].children[i]) ELSE << >>)
         \o drop_children_events(h, p, i + 1)

drop_box_events(h, p) ==
    (IF h[p].kind = "L4" THEN << >> ELSE drop_children_events(h, p, 0))
    \o <<<<"free", p>>>>

inner_drop_events(h, rs) ==
    <<<<"root", "l1">>>>
    \o (IF rs["l1"] # null_mut THEN drop_box_events(h, rs["l1"]) ELSE << >>)
    \o <<<<"root", "l2">>>>
    \o (IF rs["l2"] # null_mut THEN drop_box_events(h, rs["l2"]) ELSE << >>)
    \o <<<<"root", "l3">>>>
    \o (IF rs["l3"] # null_mut THEN drop_box_events(h, rs["l3"]) ELSE << >>)
    \o <<<<"root", "l4">>>>
    \o (IF rs["l4"] # null_mut THEN drop_box_events(h, rs["l4"]) ELSE << >>)

Occurrences(seq, a) == Cardinality({i \in DOMAIN seq : seq[i] = a})

\* The heap after the allocator takes back every address of freed, in order.
Dealloc(h, freed) ==
    [a \in DOMAIN h |->
        IF Occurrences(freed, a) > 0
        THEN [h[a] EXCEPT !.live = FALSE, !.frees = @ + Occurrences(freed, a)]
        ELSE h[a]]

\* ---- PageTable::get, one step at a time

InGet(t) == th[t].pc \in {"load", "alloc", "cas", "drop"}

\* punch_through returned &*p to get (lines 238-254): get passes the next
\* segment to traverse_or_install, or, with the leaf in hand, returns
\* &l4.children[k4].
AfterPunch(rec, p) ==
    LET segs == GetPath(rec.key).segs IN
    IF rec.lvl < Len(segs)
    THEN [rec EXCEPT !.pc = "load", !.lvl = @ + 1,
                     !.atomic_ptr = ChildSlot(p, segs[rec.lvl + 1]),
                     !.ptr = null_mut, !.new_child_ptr = null_mut,
                     !.nAlloc = 0, !.nCas = 0, !.nFree = 0]
    ELSE [rec EXCEPT !.pc = "hold", !.ref = ChildSlot(p, LeafIndex(rec.key)),
                     !.atomic_ptr = NoSlot,
                     !.ptr = null_mut, !.new_child_ptr = null_mut]

\* The (key, slot) pairs returned so far, given thread record rec after a step.
Returned(rec) ==
    IF rec.pc = "hold"
    THEN returned \cup {[key |-> rec.key, obj |-> rec.ref.obj, idx |-> rec.ref.idx]}
    ELSE returned

\* pt.get(key) is called through a live handle: the key is decomposed and
\* punch_through starts on the selected root.  Threads are interchangeable, so
\* the call is made by the first thread that is free.
Call(t, key) ==
    /\ th[t].pc = "idle"
    /\ \A u \in Threads : u < t => th[u].pc # "idle"
    /\ strong >= 1
    /\ gets < MaxGets
    /\ gets' = gets + 1
    /\ th' = [th EXCEPT ![t] =
                [IdleThread EXCEPT !.pc = "load", !.key = key,
                                   !.atomic_ptr = RootSlot(GetPath(key).root)]]
    /\ UNCHANGED <<roots, heap, strong, torn, dropLog, incs, returned,
                   casLog, ALLOCATED, FREED, probe>>

\* A punch_through that allocates whatever it loaded.
Load_eager(t) ==
    /\ th[t].pc = "load"
    /\ th' = [th EXCEPT ![t] =
                [@ EXCEPT !.pc = "alloc", !.ptr = SlotLoad(th[t].atomic_ptr)]]
    /\ UNCHANGED <<roots, heap, strong, torn, dropLog, gets, incs, returned,
                   casLog, ALLOCATED, FREED, probe>>

\* punch_through line 179 and the test of line 181.
Load(t) ==
    /\ th[t].pc = "load"
    /\ LET ptr == SlotLoad(th[t].atomic_ptr)
           rec == IF ptr = null_mut
                  THEN [th[t] EXCEPT !.pc = "alloc", !.ptr = ptr]
                  ELSE AfterPunch(th[t], ptr)
       IN /\ th' = [th EXCEPT ![t] = rec]
          /\ returned' = Returned(rec)
    /\ UNCHANGED <<roots, heap, strong, torn, dropLog, gets, incs,
                   casLog, ALLOCATED, FREED, probe>>

\* An allocation that takes two pages and forgets the first.
Alloc_double(t) ==
    /\ th[t].pc = "alloc"
    /\ heap' = Append(Append(heap, alloc_zeroed(SlotKind(th[t].atomic_ptr))),
                      alloc_zeroed(SlotKind(th[t].atomic_ptr)))
    /\ ALLOCATED' = ALLOCATED + 2
    /\ th' = [th EXCEPT ![t] =
                [@ EXCEPT !.pc = "cas", !.new_child_ptr = Len(heap) + 2,
                          !.allocs = @ + 1, !.nAlloc = @ + 1]]
    /\ UNCHANGED <<roots, strong, torn, dropLog, gets, incs, returned,
                   casLog, FREED, probe>>

\* punch_through lines 182-184, the allocation succeeding.
Alloc(t) ==
    /\ th[t].pc = "alloc"
    /\ heap' = Append(heap, alloc_zeroed(SlotKind(th[t].atomic_ptr)))
    /\ ALLOCATED' = ALLOCATED + 1
    /\ th' = [th EXCEPT ![t] =
                [@ EXCEPT !.pc = "cas", !.new_child_ptr = Len(heap) + 1,
                          !.allocs = @ + 1, !.nAlloc = @ + 1]]
    /\ UNCHANGED <<roots, strong, torn, dropLog, gets, incs, returned,
                   casLog, FREED, probe>>

\* A failed allocation that is tried again from the load instead of panicking.
AllocFail_retry(t) ==
    /\ th[t].pc = "alloc"
    /\ th' = [th EXCEPT ![t] = [@ EXCEPT !.pc = "load"]]
    /\ UNCHANGED <<roots, heap, strong, torn, dropLog, gets, incs,
                   returned, casLog, ALLOCATED, FREED, probe>>

\* punch_through lines 183-184, alloc_zeroed returning null: the assert panics
\* and the thread unwinds out of get.
AllocFail(t) ==
    /\ th[t].pc = "alloc"
    /\ th' = [th EXCEPT ![t] = [@ EXCEPT !.pc = "panicked"]]
    /\ UNCHANGED <<roots, heap, strong, torn, dropLog, gets, incs,
                   returned, casLog, ALLOCATED, FREED, probe>>

\* An Err arm that goes on with the thread's own page instead of the winner's.
CasErr_keep_own(rec, cur_ptr) ==
    [rec EXCEPT !.pc = "drop", !.ptr = rec.new_child_ptr, !.nCas = @ + 1]

\* An Err arm that allocates again and retries the compare_exchange.
CasErr_realloc(rec, cur_ptr) ==
    [rec EXCEPT !.pc = "alloc", !.nCas = @ + 1]

\* An Err arm that goes back to the load of line 179.
CasErr_retry(rec, cur_ptr) ==
    [rec EXCEPT !.pc = "load", !.nCas = @ + 1]

\* An Err arm that goes on with the winner's page without dropping its own.
CasErr_skip_drop(rec, cur_ptr) ==
    AfterPunch([rec EXCEPT !.nCas = @ + 1], cur_ptr)

\* The Err(cur_ptr) arm of the match (lines 195-200), up to the drop: ptr is
\* the winner's pointer, and the thread's own page is about to be dropped.
CasErr(rec, cur_ptr) ==
    [rec EXCEPT !.pc = "drop", !.ptr = cur_ptr, !.nCas = @ + 1]

\* punch_through lines 186-196: the compare_exchange and its two arms.
Cas(t) ==
    /\ th[t].pc = "cas"
    /\ LET s == th[t].atomic_ptr
           new == th[t].new_child_ptr
           r == compare_exchange(SlotLoad(s), null_mut, new)
           rec == IF r.ok
                  THEN AfterPunch([th[t] EXCEPT !.nCas = @ + 1], new)
                  ELSE CasErr(th[t], r.val)
       IN /\ roots' = RootsStore(s, r.stored)
          /\ heap' = HeapStore(heap, s, r.stored)
          /\ casLog' = IF r.ok THEN casLog \cup {[slot |-> s, child |-> new]} ELSE casLog
          /\ th' = [th EXCEPT ![t] = rec]
          /\ returned' = Returned(rec)
    /\ UNCHANGED <<strong, torn, dropLog, gets, incs, ALLOCATED, FREED,
                   probe>>

\* An Err arm that forgets its page.
LoserDrop_leak(h, new_child_ptr) == << >>

\* What the Err arm hands to drop(Box::from_raw(..)) (line 198).
LoserDrop(h, new_child_ptr) == drop_box(h, new_child_ptr)

\* punch_through lines 197-199 and 204: the loser drops its own page and goes
\* on with the winner's.
DropLoser(t) ==
    /\ th[t].pc = "drop"
    /\ LET freed == LoserDrop(heap, th[t].new_child_ptr)
           rec == AfterPunch([th[t] EXCEPT !.nFree = @ + 1], th[t].ptr)
       IN /\ heap' = Dealloc(heap, freed)
          /\ FREED' = FREED + Len(freed)
          /\ th' = [th EXCEPT ![t] = rec]
          /\ returned' = Returned(rec)
    /\ UNCHANGED <<roots, strong, torn, dropLog, gets, incs, casLog,
                   ALLOCATED, probe>>

\* ---- the caller's use of the returned &T (an AtomicU64)

\* pt.get(key).fetch_add(1, ..), as in the doc example and in smoke.
FetchAdd(t) ==
    /\ th[t].pc = "hold"
    /\ incs[th[t].key] < MaxIncs
    /\ heap' = [heap EXCEPT ![th[t].ref.obj].children[th[t].ref.idx] = @ + 1]
    /\ incs' = [incs EXCEPT ![th[t].key] = @ + 1]
    /\ th' = [th EXCEPT ![t] = [@ EXCEPT !.pc = "used"]]
    /\ UNCHANGED <<roots, strong, torn, dropLog, gets, returned, casLog,
                   ALLOCATED, FREED, probe>>

\* pt.get(key).load(..): val is the value read; seen records how many
\* fetch_add calls had been made through get(key) by then.
LoadVal(t) ==
    /\ th[t].pc = "hold"
    /\ th' = [th EXCEPT ![t] =
                [@ EXCEPT !.pc = "used", !.read = TRUE,
                          !.val = heap[th[t].ref.obj].children[th[t].ref.idx],
                          !.seen = incs[th[t].key]]]
    /\ UNCHANGED <<roots, heap, strong, torn, dropLog, gets, incs,
                   returned, casLog, ALLOCATED, FREED, probe>>

\* The borrow of the handle ends: the reference is gone.
Release(t) ==
    /\ th[t].pc = "used"
    /\ th' = [th EXCEPT ![t] = IdleThread]
    /\ UNCHANGED <<roots, heap, strong, torn, dropLog, gets, incs,
                   returned, casLog, ALLOCATED, FREED, probe>>

\* ---- handles

\* <PageTable as Clone>::clone: one more handle on the same Arc.
Clone ==
    /\ strong >= 1
    /\ strong < MaxHandles
    /\ strong' = strong + 1
    /\ UNCHANGED <<roots, heap, torn, dropLog, th, gets, incs, returned, casLog,
                   ALLOCATED, FREED, probe>>

\* A thread borrows a handle from the call of get until the returned reference
\* is gone.
Borrowing(t) == th[t].pc \notin {"idle", "panicked"}

\* A handle that frees the tree whenever it goes away, as if it owned it.
ArcLast_any(count) == TRUE

\* Arc::drop on a count of count: this was the last handle, the one whose drop
\* runs <PageTableInner as Drop>::drop.
ArcLast(count) == count - 1 = 0

\* A handle goes out of scope: the Arc's count drops, and at zero
\* PageTableInner::drop frees the tree.  PageTable is Sync, so the borrowing
\* threads may all borrow one handle: any other handle can go, and the last
\* one only when no thread borrows it.
DropHandle ==
    /\ strong >= 1
    /\ strong > 1 \/ \A t \in Threads : ~Borrowing(t)
    /\ strong' = strong - 1
    /\ IF ArcLast(strong)
       THEN LET freed == inner_drop(heap, roots)
            IN /\ heap' = Dealloc(heap, freed)
               /\ FREED' = FREED + Len(freed)
               /\ dropLog' = freed
               /\ torn' = TRUE
       ELSE UNCHANGED <<heap, FREED, dropLog, torn>>
    /\ UNCHANGED <<roots, th, gets, incs, returned, casLog, ALLOCATED,
                   probe>>

Next ==
    \/ \E t \in Threads, key \in TestKeys : Call(t, key)
    \/ \E t \in Threads : Load(t)
    \/ \E t \in Threads : Alloc(t)
    \/ \E t \in Threads : AllocFail(t)
    \/ \E t \in Threads : Cas(t)
    \/ \E t \in Threads : DropLoser(t)
    \/ \E t \in Threads : FetchAdd(t)
    \/ \E t \in Threads : LoadVal(t)
    \/ \E t \in Threads : Release(t)
    \/ Clone
    \/ DropHandle

Spec == Init /\ [][Next]_vars

\* ---- the key decomposition on its own, over every key

\* The root, the segments passed to traverse_or_install and the index into
\* the leaf that lines 228-254 compute for key.
Decomposition(key) ==
    [key |-> key, done |-> TRUE, root |-> GetPath(key).root,
     segs |-> GetPath(key).segs, k4 |-> LeafIndex(key)]

\* get decomposes one key, any key.
Decompose ==
    /\ ~probe.done
    /\ \E key \in AllKeys : probe' = Decomposition(key)
    /\ UNCHANGED <<roots, heap, strong, torn, dropLog, th, gets, incs,
                   returned, casLog, ALLOCATED, FREED>>

NextKey == Decompose

SpecKey == Init /\ [][NextKey]_vars

\* ---- what the claims speak of

\* The pages of the subtree at page p.
RECURSIVE Under(_)
Under(p) ==
    IF heap[p].kind = "L4" THEN {p}
    ELSE {p} \cup UNION {Under(heap[p].children[i]) :
                            i \in {j \in Segs : heap[p].children[j] # null_mut}}

\* The pages reachable from root r, and from any root.
UnderRoot(r) == IF roots[r] = null_mut THEN {} ELSE Under(roots[r])
Installed == UNION {UnderRoot(r) : r \in RootNames}

\* The non-null pointer slots of the tree.
Pointers ==
    {RootSlot(r) : r \in {q \in RootNames : roots[q] # null_mut}}
    \cup {s \in {ChildSlot(p, i) : p \in {q \in Installed : heap[q].kind # "L4"},
                                   i \in Segs} :
            heap[s.obj].children[s.idx] # null_mut}

LivePages == {a \in DOMAIN heap : heap[a].live}

\* No thread is between the call of get and its return.
Quiescent == \A t \in Threads : ~InGet(t)

\* The leaf get(key) would reach now without installing anything, or null.
RECURSIVE Walk(_, _, _)
Walk(p, segs, i) ==
    IF p = null_mut \/ i > Len(segs) THEN p
    ELSE Walk(heap[p].children[segs[i]], segs, i + 1)

\* GetPath and LeafIndex of every key get is called with, computed once.
PathOf == [key \in TestKeys |-> GetPath(key)]
K4Of == [key \in TestKeys |-> LeafIndex(key)]

LeafOf(key) == Walk(roots[PathOf[key].root], PathOf[key].segs, 1)

\* What get(key).load() would read now: a page get has yet to install is zero.
ReadKey(key) ==
    LET leaf == LeafOf(key)
    IN IF leaf = null_mut THEN 0 ELSE heap[leaf].children[K4Of[key]]

\* The root the specification assigns to a key, by the key's magnitude.
ExpectedRoot(key) ==
    IF key < FANOUT THEN "l4"
    ELSE IF key < FANOUT ^ 2 THEN "l3"
    ELSE IF key < FANOUT ^ 3 THEN "l2"
    ELSE "l1"

\* The levels of pages on a key's path: 1 under the leaf root, up to 4.
ExpectedDepth(key) ==
    CASE ExpectedRoot(key) = "l4" -> 1
      [] ExpectedRoot(key) = "l3" -> 2
      [] ExpectedRoot(key) = "l2" -> 3
      [] ExpectedRoot(key) = "l1" -> 4

\* ---- the claims

\* C1: all calls get(k) return the same slot, whichever thread or handle makes
\* them, and a load through one returned reference reads what the fetch_add
\* calls made through the others have written.
C1_SameSlot ==
    /\ \A r1 \in returned : \A r2 \in returned :
         r1.key = r2.key => r1.obj = r2.obj /\ r1.idx = r2.idx
    /\ \A t \in Threads : th[t].read => th[t].val = th[t].seen

\* C1 witness: two threads hold references from get of the same key, one has
\* written through its reference and the other has read that write.
C1_Witness ==
    \E t1 \in Threads : \E t2 \in Threads :
        /\ t1 # t2
        /\ th[t1].pc = "used" /\ ~th[t1].read
        /\ th[t2].pc = "used" /\ th[t2].read /\ th[t2].val = 1
        /\ th[t1].key = th[t2].key

\* C2: at each slot at most one compare_exchange ever succeeds; every slot on
\* the path of a returned key has had exactly one; all calls for a key return
\* one slot; and when no get is in progress the pages alive are exactly the
\* pages of the tree, each held by exactly one slot.
C2_InstallConvergence ==
    /\ \A c1 \in casLog : \A c2 \in casLog : c1.slot = c2.slot => c1.child = c2.child
    /\ \A c \in casLog : SlotLoad(c.slot) = c.child \/ torn
    /\ \A r1 \in returned : \A r2 \in returned : r1.key = r2.key => r1 = r2
    /\ (Quiescent /\ ~torn) =>
         /\ LivePages = Installed
         /\ Cardinality(Pointers) = Cardinality(Installed)
         /\ Cardinality(casLog) = Cardinality(Installed)
         /\ \A r \in returned : LeafOf(r.key) = r.obj

\* C2 witness: both threads called get of one untouched key at once, raced at
\* an empty slot, and both have returned.
C2_Witness ==
    /\ th[1].pc = "hold" /\ th[2].pc = "hold"
    /\ th[1].key = th[2].key
    /\ th[1].nFree + th[2].nFree = 1
    /\ Cardinality(returned) = 1

\* C3: get of a key nobody has written through returns a slot holding zero.
C3_ZeroDefault ==
    \A t \in Threads :
        (th[t].pc = "hold" /\ incs[th[t].key] = 0) =>
            heap[th[t].ref.obj].children[th[t].ref.idx] = 0

\* C3 witnesses, one per way the leaf came to be there: installed by this call,
\* installed by an earlier get of another key, installed by the thread that won
\* the race for it.
C3_WitnessFresh ==
    \E t \in Threads :
        th[t].pc = "hold" /\ incs[th[t].key] = 0 /\ th[t].nCas = 1 /\ th[t].nFree = 0

C3_WitnessEarlier ==
    \E t \in Threads :
        /\ th[t].pc = "hold" /\ incs[th[t].key] = 0 /\ th[t].nAlloc = 0
        /\ \E k \in TestKeys : k # th[t].key /\ incs[k] > 0 /\ LeafOf(k) = th[t].ref.obj

C3_Witness ==
    \E t \in Threads :
        th[t].pc = "hold" /\ incs[th[t].key] = 0 /\ th[t].nFree = 1

\* C4: get of two different keys returns two different slots, also when the
\* keys differ only in the root they are routed to, and a fetch_add through
\* get(k1) changes what get(k2) reads for no other key k2.
C4_DistinctSlots ==
    /\ \A r1 \in returned : \A r2 \in returned :
         r1.key # r2.key => r1.obj # r2.obj \/ r1.idx # r2.idx
    /\ \A t \in Threads : \A k \in TestKeys :
         (th[t].pc \in {"hold", "used"} /\ k # th[t].key /\ ~torn)
            => heap[th[t].ref.obj].children[th[t].ref.idx] = incs[th[t].key]
               /\ ReadKey(k) = incs[k]

\* C4 witness: a key of the leaf root and the key of the level-3 root with the
\* same low segment have both been returned, one written and the other not.
C4_Witness ==
    /\ \E r1 \in returned : \E r2 \in returned :
         r1.key = 0 /\ r2.key = FANOUT /\ r1.idx = r2.idx
    /\ incs[0] = 1 /\ incs[FANOUT] = 0
    /\ \E t \in Threads : th[t].key = FANOUT /\ th[t].read /\ th[t].val = 0

\* C5: the table is a total map from keys to counters that start at zero: what
\* get(key) reads is, for every key, the number of fetch_add(1) calls made
\* through get(key), the largest key included.
C5_TotalMap == ~torn => \A key \in TestKeys : ReadKey(key) = incs[key]

\* C5 witness: key 0 and the largest key have each been incremented once, and
\* the increment of the largest key has been read back.
C5_Witness ==
    /\ incs[0] = 1
    /\ incs[KeyLimit - 1] = 1
    /\ ReadKey(KeyLimit - 1) = 1
    /\ ReadKey(0) = 1

\* C6: no page is freed twice, a page is alive until it is freed, and once the
\* last handle is dropped every page allocated (installed or discarded after a
\* lost race) has been freed exactly once: freed equals allocated.
C6_FreedExactlyOnce ==
    /\ ALLOCATED = Len(heap)
    /\ \A a \in DOMAIN heap :
         /\ heap[a].frees <= 1
         /\ heap[a].live <=> heap[a].frees = 0
    /\ FREED = Cardinality({a \in DOMAIN heap : heap[a].frees > 0})
    /\ torn => /\ FREED = ALLOCATED
               /\ \A a \in DOMAIN heap : heap[a].frees = 1
    /\ (~torn /\ Quiescent) => LivePages = Installed

\* C6 witness: the table is gone after a get that installed a node and a leaf
\* and a race whose loser discarded its page.
C6_Witness ==
    /\ torn
    /\ Len(dropLog) >= 2
    /\ FREED > Len(dropLog)

\* C7 as stated: no get call allocates more than three pages.
C7_AtMostThree == \A t \in Threads : th[t].allocs <= 3

\* C7 as amended: a get call allocates at most one page per level of its key's
\* path, so at most one for a key of the leaf root and at most four for a key of
\* the general root, whose path is L1, L2, L3 and the leaf L4.
C7_AtMostFour ==
    \A t \in Threads :
        /\ th[t].allocs <= 4
        /\ th[t].pc # "idle" => th[t].allocs <= ExpectedDepth(th[t].key)
        /\ InGet(t) => th[t].allocs <= th[t].lvl + 1

\* C7 witness: one get call has allocated four pages.
C7_Witness == \E t \in Threads : th[t].pc = "hold" /\ th[t].allocs = 4

\* The steps thread t has left in get at most: four per level (load, allocate,
\* compare_exchange, drop) over the levels from its own down to the fourth.
Rank(rec) ==
    CASE rec.pc = "load" -> 4 * (3 - rec.lvl) + 4
      [] rec.pc = "alloc" -> 4 * (3 - rec.lvl) + 3
      [] rec.pc = "cas" -> 4 * (3 - rec.lvl) + 2
      [] rec.pc = "drop" -> 4 * (3 - rec.lvl) + 1
      [] OTHER -> 0

\* A step of get by thread t.
GetStep(t) == Load(t) \/ Alloc(t) \/ Cas(t) \/ DropLoser(t)

\* C8, in each state: at most one allocation, one compare_exchange and one
\* deallocation at the current level, at most four levels, and a thread inside
\* get can take a step.
C8_Bounded ==
    \A t \in Threads :
        /\ th[t].nAlloc <= 1 /\ th[t].nCas <= 1 /\ th[t].nFree <= 1
        /\ th[t].lvl <= 3
        /\ InGet(t) => ENABLED GetStep(t)

\* C8, in each step: a step of a thread inside get lowers its rank.
C8_Progress ==
    \A t \in Threads :
        (InGet(t) /\ th'[t] # th[t]) => Rank(th'[t]) < Rank(th[t])

\* C8: a thread inside get can always take its next step, whatever the other
\* threads do (it never waits); each of its steps brings it closer to the
\* return (it never goes back to retry), so it returns within 16 steps of its
\* own; and at each level it allocates, compares-and-swaps and deallocates at
\* most once.
C8_WaitFree == []C8_Bounded /\ [][C8_Progress]_vars

\* C8 witness: two threads contended for the leaf slot of one key of the
\* general root; the loser has returned after one allocation, one
\* compare_exchange and one deallocation at that level, the fourth.
C8_Witness ==
    \E t1 \in Threads : \E t2 \in Threads :
        /\ t1 # t2
        /\ th[t1].pc = "hold" /\ th[t1].lvl = 3
        /\ th[t1].nAlloc = 1 /\ th[t1].nCas = 1 /\ th[t1].nFree = 1
        /\ th[t2].pc \in {"hold", "used"} /\ th[t2].key = th[t1].key

\* C9, in each state: the slot a get is at is the root its key selects or a
\* slot of a page under that root, no deeper than the root's levels.
C9_OneRoot ==
    \A t \in Threads :
        LET r == ExpectedRoot(th[t].key) IN
        /\ InGet(t) =>
             /\ th[t].lvl <= ExpectedDepth(th[t].key) - 1
             /\ \/ th[t].atomic_ptr = RootSlot(r)
                \/ th[t].atomic_ptr.root = "" /\ th[t].atomic_ptr.obj \in UnderRoot(r)
        /\ th[t].pc \in {"hold", "used"} => th[t].ref.obj \in UnderRoot(r)

\* C9, in each step: a step of a get leaves the other three roots and the
\* pages under them unchanged.
C9_Frame ==
    \A t \in Threads :
        (InGet(t) /\ th'[t] # th[t]) =>
            \A r \in RootNames \ {ExpectedRoot(th[t].key)} :
                /\ roots'[r] = roots[r]
                /\ \A a \in UnderRoot(r) : heap'[a] = heap[a]

\* C9: a get reads and writes only the root its key's magnitude selects (leaf
\* root below FANOUT, level-3 root below FANOUT^2, level-2 root below
\* FANOUT^3, general root otherwise) and pages under that root, it goes no
\* deeper than that root's levels, and each of its steps leaves the other three
\* roots and every page under them as they were.
C9_OnlySelectedRoot == []C9_OneRoot /\ [][C9_Frame]_vars

\* C9 witness: a get of a level-3 key has installed its node and its leaf while
\* the leaf root was installed and the two deeper roots were not.
C9_Witness ==
    \E t \in Threads :
        /\ th[t].pc = "hold" /\ th[t].key = FANOUT /\ th[t].allocs = 2
        /\ roots["l4"] # null_mut
        /\ roots["l1"] = null_mut /\ roots["l2"] = null_mut

\* The segments k1, k2, k3 of the probed key: those get skipped are zero.
ProbeSegs ==
    [i \in 1 .. 3 |->
        IF i <= 3 - Len(probe.segs) THEN 0 ELSE probe.segs[i - (3 - Len(probe.segs))]]

\* C10: for every key, the segments are the key's big-endian digits in base
\* FANOUT, and the root is the leaf root iff key < FANOUT, the level-3 root iff
\* FANOUT <= key < FANOUT^2, the level-2 root iff FANOUT^2 <= key < FANOUT^3,
\* the general root otherwise, with one traversal per segment the root needs.
C10_Classification ==
    probe.done =>
        /\ probe.root = ExpectedRoot(probe.key)
        /\ Len(probe.segs) = ExpectedDepth(probe.key) - 1
        /\ \A i \in 1 .. 3 : ProbeSegs[i] \in Segs
        /\ probe.k4 \in Segs
        /\ probe.key = ProbeSegs[1] * FANOUT ^ 3 + ProbeSegs[2] * FANOUT ^ 2
                       + ProbeSegs[3] * FANOUT + probe.k4

\* C10 witness: the largest key, decomposed: general root, every segment
\* FANOUT - 1.
C10_Witness ==
    /\ probe.done /\ probe.key = KeyLimit - 1
    /\ probe.root = "l1"
    /\ probe.segs = <<FANOUT - 1, FANOUT - 1, FANOUT - 1>>
    /\ probe.k4 = FANOUT - 1

\* The boundary keys in the table itself: get of each returns a slot of a live
\* leaf under the root of its range, at the index of its last segment.
C10_BoundaryUsable ==
    \A t \in Threads :
        th[t].pc \in {"hold", "used"} =>
            /\ heap[th[t].ref.obj].live
            /\ heap[th[t].ref.obj].kind = "L4"
            /\ th[t].ref.obj \in UnderRoot(ExpectedRoot(th[t].key))
            /\ th[t].ref.idx = th[t].key % FANOUT

\* C11, in each state: the tree is torn down only when no handle is left; while
\* a handle is alive every reference get has returned points into a live leaf
\* of the tree, the one get of its key still reaches, and all calls for a key
\* have returned one slot; the teardown frees every page of the tree once.
C11_Shared ==
    /\ torn <=> strong = 0
    /\ \A r1 \in returned : \A r2 \in returned : r1.key = r2.key => r1 = r2
    /\ strong >= 1 =>
         /\ \A t \in Threads :
              th[t].pc \in {"hold", "used"} =>
                  heap[th[t].ref.obj].live /\ heap[th[t].ref.obj].kind = "L4"
         /\ \A r \in returned : heap[r.obj].live /\ LeafOf(r.key) = r.obj
    /\ torn =>
         /\ Len(dropLog) = Cardinality(Installed)
         /\ \A a \in Installed : Occurrences(dropLog, a) = 1 /\ heap[a].frees = 1

\* C11, in each step: a clone copies and allocates nothing, and the drop of a
\* handle that leaves another alive frees nothing.
C11_Step ==
    /\ strong' > strong =>
         roots' = roots /\ heap' = heap /\ ALLOCATED' = ALLOCATED
    /\ (strong' < strong /\ strong' >= 1) =>
         roots' = roots /\ heap' = heap /\ FREED' = FREED /\ ~torn'

C12_NoPartialInstall ==
    \A t \in Threads :
        (th[t].pc = "panicked" /\ gets = 1) =>
            \A r \in RootNames : roots[r] = null_mut

\* C12 as amended, in each state: a get whose allocation failed holds no slot
\* and no page; it allocated at most one page per level above the one that
\* failed; the slot it failed at is the root of its key or a slot of a page
\* still in the tree; and when it was the only get ever called, the tree is
\* exactly the pages it installed above that level, one per level, all alive.
C12_Fatal ==
    \A t \in Threads :
        th[t].pc = "panicked" =>
            /\ th[t].ref = NoSlot
            /\ th[t].new_child_ptr = null_mut /\ th[t].ptr = null_mut
            /\ th[t].allocs <= th[t].lvl
            /\ \/ th[t].atomic_ptr = RootSlot(PathOf[th[t].key].root)
               \/ /\ th[t].lvl >= 1
                  /\ th[t].atomic_ptr.obj \in UnderRoot(PathOf[th[t].key].root)
                  /\ torn \/ heap[th[t].atomic_ptr.obj].live
            /\ gets = 1 =>
                 /\ Cardinality(Installed) = th[t].lvl
                 /\ th[t].allocs = th[t].lvl
                 /\ ALLOCATED = th[t].lvl
                 /\ SlotLoad(th[t].atomic_ptr) = null_mut
                 /\ ~torn => LivePages = Installed

\* C12 as amended, in each step: the only ways out of the allocation are the
\* compare_exchange with a new page and the panic; the panic stores nothing,
\* frees nothing and returns nothing; and a get that panicked stays so.
C12_Step ==
    \A t \in Threads :
        /\ (th[t].pc = "alloc" /\ th'[t] # th[t]) =>
              \/ th'[t].pc = "cas" /\ ALLOCATED' = ALLOCATED + 1
              \/ /\ th'[t].pc = "panicked"
                 /\ roots' = roots /\ heap' = heap /\ returned' = returned
                 /\ ALLOCATED' = ALLOCATED /\ FREED' = FREED /\ casLog' = casLog
        /\ th'[t].pc = "panicked" => th[t].pc \in {"alloc", "panicked"}
        /\ th[t].pc = "panicked" => th'[t] = th[t]

\* C12 as amended: a failed allocation is fatal for the call, which returns no
\* slot; the failing step stores nothing; the pages the call installed at the
\* levels above stay in the tree.
C12_FatalKeepsUpperLevels == []C12_Fatal /\ [][C12_Step]_vars

\* C12 witness: the only get ever called installed the three nodes of its
\* path and panicked on the allocation of the leaf.
C12_Witness ==
    \E t \in Threads :
        /\ th[t].pc = "panicked" /\ gets = 1
        /\ th[t].lvl = 3 /\ th[t].allocs = 3
        /\ Cardinality(Installed) = 3

\* C13, in each state: a handle is alive until the teardown, and until then
\* every page of the tree is alive.
C13_NoneFreed ==
    /\ strong >= 1 => ~torn
    /\ ~torn => \A a \in Installed : heap[a].live /\ heap[a].frees = 0

\* C13, in each step that leaves a handle alive: a root or a child pointer
\* that is not null keeps its value, and the tree keeps its pages.
C13_Step ==
    strong' >= 1 =>
        /\ \A r \in RootNames : roots[r] # null_mut => roots'[r] = roots[r]
        /\ \A a \in DOMAIN heap :
             heap[a].kind # "L4" =>
                 \A i \in Segs :
                     heap[a].children[i] # null_mut =>
                         heap'[a].children[i] = heap[a].children[i]
        /\ Installed \subseteq Installed'

\* C13: while a handle is alive every pointer slot is write-once (once not
\* null it keeps its value for ever, and is never null again), and no page of
\* the tree is freed before the teardown.
C13_WriteOnce == []C13_NoneFreed /\ [][C13_Step]_vars

\* C13 witness: a compare_exchange has just failed on a slot another thread
\* filled, and the slot still holds that thread's page.
C13_Witness ==
    \E t \in Threads :
        /\ th[t].pc = "drop" /\ strong >= 1
        /\ th[t].ptr # null_mut /\ th[t].ptr # th[t].new_child_ptr
        /\ SlotLoad(th[t].atomic_ptr) = th[t].ptr
        /\ th[t].ptr \in Installed

\* The pages a thread has allocated and not yet installed or dropped.
InHand == {th[t].new_child_ptr : t \in {u \in Threads : th[u].pc \in {"cas", "drop"}}}

\* The values of the pointer slots of the tree and of every page ever allocated.
Stored ==
    {roots[r] : r \in RootNames}
    \cup UNION {{heap[a].children[i] : i \in Segs} :
                   a \in {b \in DOMAIN heap : heap[b].kind # "L4"}}

\* C14, in each state: after a failed compare_exchange the thread's own page
\* is in no slot, is still alive and is not the page it goes on with, which is
\* the page the slot holds; and before the teardown every page that is neither
\* in the tree nor in a thread's hand between its allocation and its drop has
\* been freed, is in no slot and is no returned reference's page.
C14_LoserState ==
    /\ \A t \in Threads :
         th[t].pc = "drop" =>
             /\ th[t].new_child_ptr \notin Stored
             /\ heap[th[t].new_child_ptr].live
             /\ th[t].ptr # th[t].new_child_ptr
             /\ th[t].ptr # null_mut
             /\ th[t].ptr = SlotLoad(th[t].atomic_ptr)
             /\ th[t].nCas = 1 /\ th[t].nFree = 0
    /\ ~torn =>
         \A a \in DOMAIN heap :
             a \notin Installed /\ a \notin InHand =>
                 /\ heap[a].frees = 1
                 /\ a \notin Stored
                 /\ \A r \in returned : r.obj # a
                 /\ \A t \in Threads : th[t].ref.obj # a /\ th[t].atomic_ptr.obj # a

\* C14, in each step: a compare_exchange that fails stores nothing and reports
\* the page the slot holds; the next step of that thread frees its own page,
\* and only that page, and goes on (to the next level, or to the return) with
\* the reported page.
C14_LoserStep ==
    \A t \in Threads :
        /\ (th[t].pc = "cas" /\ th'[t].pc = "drop") =>
              /\ roots' = roots /\ heap' = heap
              /\ th'[t].ptr = SlotLoad(th[t].atomic_ptr)
              /\ th'[t].new_child_ptr = th[t].new_child_ptr
        /\ (th[t].pc = "drop" /\ th'[t] # th[t]) =>
              /\ ~heap'[th[t].new_child_ptr].live
              /\ heap'[th[t].new_child_ptr].frees = 1
              /\ \A a \in DOMAIN heap : a # th[t].new_child_ptr => heap'[a] = heap[a]
              /\ FREED' = FREED + 1
              /\ roots' = roots
              /\ \/ th'[t].pc = "load" /\ th'[t].atomic_ptr.obj = th[t].ptr
                 \/ th'[t].pc = "hold" /\ th'[t].ref.obj = th[t].ptr

\* C14: the page of a thread whose compare_exchange failed is never stored in
\* a slot, is freed by that thread before its punch_through returns, and is
\* never returned; the thread returns the page the failed compare_exchange
\* reported, which is the winner's.
C14_LoserDiscarded == []C14_LoserState /\ [][C14_LoserStep]_vars

\* C14 witness: a thread that lost the race for a leaf has freed its own leaf
\* and returned a slot of the winner's.
C14_Witness ==
    \E t \in Threads :
        /\ th[t].pc = "hold" /\ th[t].nFree = 1
        /\ th[t].ref.obj \in Installed
        /\ \E a \in DOMAIN heap :
             a \notin Installed /\ heap[a].kind = "L4" /\ heap[a].frees = 1

\* The slots a page has been allocated for: those a compare_exchange filled
\* (a thread that lost the race for a slot lost it to one of these) and those a
\* thread holds a page for.
AllocatedFor ==
    {c.slot : c \in casLog}
    \cup {th[t].atomic_ptr : t \in {u \in Threads : th[u].pc \in {"cas", "drop"}}}

\* C15 as stated: one allocation per slot a page was ever allocated for.
C15_AllocatedOncePerSlot == ALLOCATED = Cardinality(AllocatedFor)

\* C15 as amended, in each state: every page allocated is the one page
\* installed in its slot, or a page its thread freed after losing the race, or
\* in a thread's hand; a slot is filled by one compare_exchange only; a thread
\* allocates only for a slot it loaded null from, once.
C15_Accounting ==
    /\ ALLOCATED =
         Cardinality(casLog) + (FREED - Len(dropLog))
         + Cardinality({t \in Threads : th[t].pc \in {"cas", "drop"}})
    /\ Cardinality(casLog) = Cardinality({c.slot : c \in casLog})
    /\ ~torn => Cardinality(casLog) = Cardinality(Installed)
    /\ FREED - Len(dropLog) <= (NThreads - 1) * Cardinality(casLog)
    /\ \A t \in Threads :
         /\ th[t].nAlloc <= 1
         /\ th[t].pc \in {"alloc", "cas"} => th[t].ptr = null_mut
         /\ th[t].pc = "cas" => th[t].nAlloc = 1

\* C15 as amended, in each step: a load goes on to allocate exactly when the
\* slot is null, and an allocation is one page, by a thread that loaded null.
C15_Step ==
    /\ \A t \in Threads :
         (th[t].pc = "load" /\ th'[t] # th[t]) =>
             (th'[t].pc = "alloc" <=> SlotLoad(th[t].atomic_ptr) = null_mut)
    /\ ALLOCATED' # ALLOCATED =>
         /\ ALLOCATED' = ALLOCATED + 1
         /\ \E t \in Threads : th[t].pc = "alloc" /\ th'[t].pc = "cas"

\* C15 as amended: a page is installed in each slot exactly once; a page is
\* allocated for a slot by each get that loads the slot while it is null, once
\* per such get, so more than once when gets race for the slot; the pages not
\* installed are freed by the threads that allocated them; and a get that loads
\* a slot that is not null allocates nothing for it.
C15_InstalledOncePerSlot == []C15_Accounting /\ [][C15_Step]_vars

\* C15 witness: two pages were allocated for one slot; one is installed and
\* the other has been freed.
C15_Witness ==
    /\ ALLOCATED = 2 /\ FREED = 1 /\ ~torn
    /\ Cardinality(casLog) = 1
    /\ Cardinality(Installed) = 1

\* C16, in each state: a get at a load whose key's whole path is not null is
\* at a slot that is not null; a compare_exchange or a drop is only ever
\* reached through an allocation.
C16_FastState ==
    \A t \in Threads :
        /\ (th[t].pc = "load" /\ LeafOf(th[t].key) # null_mut) =>
              SlotLoad(th[t].atomic_ptr) # null_mut
        /\ th[t].pc \in {"cas", "drop"} => th[t].nAlloc = 1 /\ th[t].allocs >= 1
        /\ (th[t].pc = "hold" /\ th[t].allocs = 0) =>
              th[t].nAlloc = 0 /\ th[t].nCas = 0 /\ th[t].nFree = 0

\* C16, in each step: a step of a get whose key's whole path is not null is a
\* load that goes to the next level or returns the slot of the leaf on that
\* path; it allocates, stores and frees nothing, and the path stays whole.
C16_FastStep ==
    \A t \in Threads :
        (th[t].pc = "load" /\ LeafOf(th[t].key) # null_mut /\ th'[t] # th[t]) =>
            /\ roots' = roots /\ heap' = heap /\ casLog' = casLog
            /\ ALLOCATED' = ALLOCATED /\ FREED' = FREED
            /\ th'[t].allocs = th[t].allocs
            /\ \/ /\ th'[t].pc = "load" /\ th'[t].lvl = th[t].lvl + 1
                  /\ th'[t].atomic_ptr.obj = SlotLoad(th[t].atomic_ptr)
               \/ /\ th'[t].pc = "hold"
                  /\ th'[t].ref = ChildSlot(LeafOf(th[t].key), K4Of[th[t].key])

\* C16: a get whose whole path is not null when it is called takes the fast
\* path at every level: each of its steps is a load of a slot that is not null,
\* none allocates, compares-and-swaps or frees, and none changes a pointer or a
\* slot of the table.
C16_FastPath == []C16_FastState /\ [][C16_FastStep]_vars

\* C16 witness: the first thread called get of a key of the general root twice,
\* alone; the second call has returned having allocated nothing, and the four
\* pages of the first call are all there is.
C16_Witness ==
    /\ th[1].pc = "hold" /\ th[1].lvl = 3 /\ th[1].allocs = 0
    /\ \A t \in Threads \ {1} : th[t].pc = "idle"
    /\ gets = 2
    /\ ALLOCATED = 4 /\ FREED = 0 /\ Cardinality(casLog) = 4

\* The number of pages under the roots up to and including r, in the order
\* l1, l2, l3, l4 of PageTableInner::drop: the place of r's own page.
RootDropPos(r) ==
    LET upto == CASE r = "l1" -> {"l1"}
                  [] r = "l2" -> {"l1", "l2"}
                  [] r = "l3" -> {"l1", "l2", "l3"}
                  [] r = "l4" -> {"l1", "l2", "l3", "l4"}
    IN Cardinality(UNION {UnderRoot(q) : q \in upto})

\* The place of page a in the order of the teardown's deallocations.
DropPos(a) == CHOOSE j \in DOMAIN dropLog : dropLog[j] = a

\* What the teardown did, load by load, recomputed from the pointers it read
\* (a deallocation leaves the pointers in the page as they were).
DropEvents == inner_drop_events(heap, roots)

\* C17: once the table is torn down, the pages deallocated are the pages of
\* the four subtrees, each once and nothing else (a null root or a null slot
\* gives nothing to free); every child was deallocated before the node that
\* pointed to it, and a subtree wholly before the subtree of the next root;
\* every slot of a node was loaded, and no slot of a node was loaded after the
\* node was deallocated.
C17_BottomUp ==
    torn =>
        LET ev == DropEvents
            frees == SelectSeq(ev, LAMBDA e : e[1] = "free")
        IN /\ Len(frees) = Len(dropLog)
           /\ \A j \in DOMAIN dropLog : frees[j][2] = dropLog[j]
           /\ {dropLog[j] : j \in DOMAIN dropLog} = Installed
           /\ Len(dropLog) = Cardinality(Installed)
           /\ \A j \in DOMAIN dropLog : dropLog[j] # null_mut
           /\ \A a \in Installed :
                heap[a].kind # "L4" =>
                    /\ \A i \in Segs :
                         heap[a].children[i] # null_mut =>
                             DropPos(heap[a].children[i]) < DropPos(a)
                    /\ Cardinality({j \in DOMAIN ev :
                                      ev[j][1] = "load" /\ ev[j][2] = a}) = FANOUT
           /\ \A j \in DOMAIN ev : \A k \in DOMAIN ev :
                (j < k /\ ev[j][1] = "free" /\ ev[k][1] = "load")
                    => ev[k][2] # ev[j][2]
           /\ \A r \in RootNames :
                roots[r] # null_mut => DropPos(roots[r]) = RootDropPos(r)

\* C17 witness: the teardown freed the four pages under the general root and
\* the leaf under the leaf root, and skipped the two roots that were null.
C17_Witness ==
    /\ torn
    /\ Len(dropLog) = 5
    /\ roots["l1"] # null_mut /\ roots["l4"] # null_mut
    /\ roots["l2"] = null_mut /\ roots["l3"] = null_mut
    /\ dropLog[4] = roots["l1"] /\ dropLog[5] = roots["l4"]

\* The depths, counted from page p at depth d, of the leaves under p.
RECURSIVE LeafDepths(_, _)
LeafDepths(p, d) ==
    IF heap[p].kind = "L4" THEN {d}
    ELSE UNION {LeafDepths(heap[p].children[i], d + 1) :
                   i \in {j \in Segs : heap[p].children[j] # null_mut}}

\* The depth the type of root r fixes for its leaves.
RootDepth(r) ==
    CASE r = "l4" -> 0 [] r = "l3" -> 1 [] r = "l2" -> 2 [] r = "l1" -> 3

\* C18: before the teardown the pages of the tree form a forest: every page
\* is held by exactly one slot, the pages under two roots are disjoint, every
\* root holds a page of its own type and every node children of its child
\* type, so that every leaf is at the depth its root fixes.
C18_Forest ==
    ~torn =>
        /\ LET slots == Pointers
           IN \A a \in Installed :
                 Cardinality({s \in slots : SlotLoad(s) = a}) = 1
        /\ \A r1 \in RootNames : \A r2 \in RootNames :
             (r1 # r2 /\ roots[r1] # null_mut /\ roots[r2] # null_mut) =>
                 UnderRoot(r1) \cap UnderRoot(r2) = {}
        /\ \A r \in RootNames :
             roots[r] # null_mut =>
                 /\ heap[roots[r]].kind = RootKind(r)
                 /\ LeafDepths(roots[r], 0) \subseteq {RootDepth(r)}
        /\ \A a \in Installed :
             heap[a].kind # "L4" =>
                 \A i \in Segs :
                     heap[a].children[i] # null_mut =>
                         heap[heap[a].children[i]].kind = ChildKind(heap[a].kind)

\* C18 witness: a leaf at depth 3 under the general root, a leaf at depth 1
\* under the level-3 root, six pages in all.
C18_Witness ==
    /\ ~torn
    /\ roots["l1"] # null_mut /\ roots["l3"] # null_mut
    /\ LeafDepths(roots["l1"], 0) = {3}
    /\ LeafDepths(roots["l3"], 0) = {1}
    /\ Cardinality(Installed) = 6

\* The slots on the path of key: its root, and one per segment get passes to
\* traverse_or_install.
SlotsOnPath(key) ==
    {[root |-> PathOf[key].root, segs |-> SubSeq(PathOf[key].segs, 1, i)] :
        i \in 0 .. Len(PathOf[key].segs)}

\* The places of the non-null slots in the nodes under page p, itself at
\* place (r, prefix).
RECURSIVE PlacesUnder(_, _, _)
PlacesUnder(p, r, prefix) ==
    IF heap[p].kind = "L4" THEN {}
    ELSE UNION {{[root |-> r, segs |-> Append(prefix, i)]}
                \cup PlacesUnder(heap[p].children[i], r, Append(prefix, i)) :
                   i \in {j \in Segs : heap[p].children[j] # null_mut}}

\* The places of all non-null slots of the table.
NonNullPlaces ==
    UNION {{[root |-> r, segs |-> << >>]} \cup PlacesUnder(roots[r], r, << >>) :
              r \in {q \in RootNames : roots[q] # null_mut}}

\* The keys of the get calls that have returned, and of those under way or
\* ended by a panic.
KeysReturned == {r.key : r \in returned}
KeysStarted == {th[t].key : t \in {u \in Threads : th[u].pc # "idle"}}

\* C19: when every get called has returned, the non-null slots of the table
\* are exactly the slots on the paths of the keys requested, whatever the
\* order and the interleaving of the calls and whichever threads made them;
\* and at any time before the teardown they are at least the slots on the
\* paths of the keys returned and at most those on the paths of the keys of
\* all calls.
C19_ExactlyRequestedPaths ==
    ~torn =>
        /\ (\A t \in Threads : th[t].pc \in {"idle", "hold", "used"}) =>
              NonNullPlaces = UNION {SlotsOnPath(k) : k \in KeysReturned}
        /\ UNION {SlotsOnPath(k) : k \in KeysReturned} \subseteq NonNullPlaces
        /\ NonNullPlaces \subseteq
              UNION {SlotsOnPath(k) : k \in KeysReturned \cup KeysStarted}

\* C19 witness: two threads called get of two keys of the general root at
\* once and raced for a page; both have returned, and the seven slots of the
\* two paths, which share the root, are the non-null slots.
C19_Witness ==
    /\ ~torn
    /\ \A t \in Threads : th[t].pc \in {"hold", "used"}
    /\ KeysReturned = {FANOUT ^ 3, KeyLimit - 1}
    /\ FREED = 1
    /\ Cardinality(NonNullPlaces) = 7

\* C20: child slot 0 of the page of the general root, of the level-2 root and
\* of the level-3 root is null in every state, and no get is ever at such a
\* slot: a key whose leading segment is zero goes to a shallower root. A node
\* below a root may have its child 0 installed.
C20_RootChildZeroNull ==
    /\ \A r \in {"l1", "l2", "l3"} :
         roots[r] # null_mut => heap[roots[r]].children[0] = null_mut
    /\ \A t \in Threads :
         (th[t].atomic_ptr.root = "" /\ th[t].atomic_ptr.obj # null_mut
          /\ \E r \in {"l1", "l2", "l3"} : roots[r] = th[t].atomic_ptr.obj)
            => th[t].atomic_ptr.idx # 0

\* C20 witness: the level-2 root and the level-3 root are installed, each with
\* a child and none at index 0, and the node below the level-2 root has its
\* child 0 installed.
C20_Witness ==
    /\ \A r \in {"l2", "l3"} :
         /\ roots[r] # null_mut
         /\ heap[roots[r]].children[0] = null_mut
         /\ \E i \in Segs : heap[roots[r]].children[i] # null_mut
    /\ \E a \in UnderRoot("l2") :
         a # roots["l2"] /\ heap[a].kind = "L3" /\ heap[a].children[0] # null_mut

====
